---- MODULE Spec2Model ----
(***************************************************************************)
(* Model of tools/check_theme_manifests.py: the manifest locator, loader,  *)
(* validator and the reporting driver (main).                              *)
(*                                                                         *)
(* JSON values are tagged records (t = type tag), so that Python's typed   *)
(* behaviour (dict.get, isinstance, ==, repr, attribute lookup) is         *)
(* computed from the tag and not assumed.  Text is kept as sequences of    *)
(* string pieces; the concatenation of the pieces is the Python string.    *)
(***************************************************************************)
EXTENDS Integers, Sequences, FiniteSets, TLC

\* ------------------------------------------------------------------------
\* Bounds of the model
\* ------------------------------------------------------------------------
\* longest directory-entry name under the themes root
MaxNameLen == 2
\* largest number of entries under the themes root
MaxEntries == 2

\* ------------------------------------------------------------------------
\* JSON values as json.loads builds them
\* ------------------------------------------------------------------------
\* t: type tag; n: numeric payload (int value, float value in tenths,
\* bool as 0/1); s: string payload; keys: key set of an object.
J(t, n, s, keys) == [t |-> t, n |-> n, s |-> s, keys |-> keys]

\* marker of a key that is not in a dict (never a JSON value itself)
Absent == J("absent", 0, "", {})
JNull == J("null", 0, "", {})
JBool(b) == J("bool", IF b THEN 1 ELSE 0, "", {})
JInt(i) == J("int", i, "", {})
\* a float, given in tenths: JFloat(30) is 3.0, JFloat(25) is 2.5
JFloat(tenths) == J("float", tenths, "", {})
JStr(s) == J("str", 0, s, {})
JArray == J("array", 0, "", {})
JObj(keys) == J("object", 0, "", keys)

\* keys of the top-level document the validator looks at
TopKeys == {"manifest_version", "name", "version", "theme"}

\* a parsed document: its top-level type and, for an object, its members
Doc(t, f) == [t |-> t, f |-> f]

NoMembers == [k \in TopKeys |-> Absent]

\* values tried for manifest_version
VersionValues ==
    {Absent, JNull, JBool(TRUE), JInt(2), JInt(3), JFloat(30), JFloat(25), JStr("3")}

\* values tried for name and version
PlainValues == {Absent, JNull, JStr("x")}

\* values tried for theme
ThemeValues ==
    {Absent, JNull, JStr("x"), JArray}
        \cup {JObj(ks) : ks \in SUBSET {"colors", "images", "frame"}}

ObjectDocs ==
    {Doc("object", [k \in TopKeys |->
                      CASE k = "manifest_version" -> mv
                        [] k = "name" -> nm
                        [] k = "version" -> ver
                        [] OTHER -> th]) :
        mv \in VersionValues, nm \in PlainValues,
        ver \in PlainValues, th \in ThemeValues}

NonObjectDocs ==
    {Doc(t, NoMembers) : t \in {"array", "str", "int", "float", "bool", "null"}}

Docs == ObjectDocs \cup NonObjectDocs

\* ------------------------------------------------------------------------
\* Python primitives used by the validator
\* ------------------------------------------------------------------------
\* manifest.get(key): the value, or None when the key is not in the dict
Get(m, key) == IF m.f[key].t = "absent" THEN JNull ELSE m.f[key]

\* variant: a field counts as given only when its value is not None
ContainsNotNone(m, key) == m.f[key].t \notin {"absent", "null"}

\* key in manifest
Contains(m, key) == m.f[key].t # "absent"

\* isinstance(v, dict)
IsDict(v) == v.t = "object"

\* v == k for an int k: numbers compare by value across int, float and bool
PyEqInt(v, k) ==
    CASE v.t = "int" -> v.n = k
      [] v.t = "bool" -> v.n = k
      [] v.t = "float" -> v.n = 10 * k
      [] OTHER -> FALSE

\* repr(v), as pieces
Repr(v) ==
    CASE v.t = "null" -> <<"None">>
      [] v.t = "bool" -> IF v.n = 1 THEN <<"True">> ELSE <<"False">>
      [] v.t = "int" -> <<ToString(v.n)>>
      [] v.t = "float" -> <<ToString(v.n \div 10), ".", ToString(v.n % 10)>>
      [] v.t = "str" -> <<"'", v.s, "'">>
      [] v.t = "array" -> <<"[]">>
      [] OTHER -> <<"{...}">>

\* ------------------------------------------------------------------------
\* ManifestIssue
\* ------------------------------------------------------------------------
ManifestIssue(path, message) == [path |-> path, message |-> message]

\* ManifestIssue.format
Format(issue) == <<issue.path, ": ">> \o issue.message

\* ------------------------------------------------------------------------
\* validate_manifest
\* ------------------------------------------------------------------------
RequiredVersion == 3

RequiredFields == <<"name", "version", "theme">>

\* result of a call: exc = "" when it returned, else the exception raised
Returned(issues) == [exc |-> "", issues |-> issues]
Raised(exc) == [exc |-> exc, issues |-> <<>>]

\* the manifest_version rule
VersionIssues(path, m) ==
    LET manifest_version == Get(m, "manifest_version")
    IN  IF ~PyEqInt(manifest_version, RequiredVersion)
        THEN <<ManifestIssue(path,
                 <<"expected manifest_version 3, found ">> \o Repr(manifest_version))>>
        ELSE <<>>

\* the loop over the required fields
RECURSIVE FieldIssuesFrom(_, _, _)
FieldIssuesFrom(path, m, i) ==
    IF i > Len(RequiredFields) THEN <<>>
    ELSE (IF ~Contains(m, RequiredFields[i])
          THEN <<ManifestIssue(path,
                   <<"missing required field '", RequiredFields[i], "'">>)>>
          ELSE <<>>)
         \o FieldIssuesFrom(path, m, i + 1)

FieldIssues(path, m) == FieldIssuesFrom(path, m, 1)

\* variant: the theme block must have both colors and images
ThemeIssuesNeedsBoth(path, m) ==
    IF IsDict(Get(m, "theme"))
    THEN LET theme_block == m.f["theme"]
         IN  IF ~(\A key \in {"colors", "images"} : key \in theme_block.keys)
             THEN <<ManifestIssue(path,
                      <<"theme block should include at least 'colors' or 'images'">>)>>
             ELSE <<>>
    ELSE <<ManifestIssue(path, <<"theme section must be an object">>)>>

\* the theme block rule
ThemeIssues(path, m) ==
    IF IsDict(Get(m, "theme"))
    THEN LET theme_block == m.f["theme"]
         IN  IF ~(\E key \in {"colors", "images"} : key \in theme_block.keys)
             THEN <<ManifestIssue(path,
                      <<"theme block should include at least 'colors' or 'images'">>)>>
             ELSE <<>>
    ELSE <<ManifestIssue(path, <<"theme section must be an object">>)>>

\* variant: returns as soon as the version rule has produced an issue
ValidateManifestShortCircuit(path, m) ==
    IF m.t # "object"
    THEN Raised("AttributeError")
    ELSE IF VersionIssues(path, m) # <<>>
    THEN Returned(VersionIssues(path, m))
    ELSE Returned(FieldIssues(path, m) \o ThemeIssues(path, m))

\* validate_manifest(path, manifest); only a dict has the attribute get
ValidateManifest(path, m) ==
    IF m.t # "object"
    THEN Raised("AttributeError")
    ELSE Returned(VersionIssues(path, m) \o FieldIssues(path, m) \o ThemeIssues(path, m))

\* ------------------------------------------------------------------------
\* The themes root on disk
\* ------------------------------------------------------------------------
\* code point of the hidden-file marker "."
Dot == 46

\* code points names are made of: "." and "a"
Alphabet == {Dot, 97}

\* entry names: strings of 1..MaxNameLen code points
Names == UNION {[1..k -> Alphabet] : k \in 1..MaxNameLen}

NoDoc == Doc("none", NoMembers)

\* an entry of the root: kind is "none" (no such entry), "file" or "dir";
\* for a directory, st is the state of <dir>/manifest.json:
\*   "missing"    no such file
\*   "invalid"    text that is not JSON
\*   "unreadable" exists but cannot be read as UTF-8 text
\*   "json"       JSON text of the document doc
Entry(kind, st, doc) == [kind |-> kind, st |-> st, doc |-> doc]

NoEntry == Entry("none", "missing", NoDoc)

Conformant ==
    Doc("object", [k \in TopKeys |->
        CASE k = "manifest_version" -> JInt(3)
          [] k = "theme" -> JObj({"colors"})
          [] OTHER -> JStr("x")])

\* manifest_version 2 and no name: two issues
TwoIssues ==
    Doc("object", [k \in TopKeys |->
        CASE k = "manifest_version" -> JInt(2)
          [] k = "name" -> Absent
          [] k = "theme" -> JObj({"images"})
          [] OTHER -> JStr("x")])

\* documents tried under the root
SampleDocs == {Conformant, TwoIssues, Doc("array", NoMembers)}

Entries ==
    {Entry("file", "missing", NoDoc)}
        \cup {Entry("dir", st, NoDoc) : st \in {"missing", "invalid", "unreadable"}}
        \cup {Entry("dir", "json", d) : d \in SampleDocs}

\* str.__lt__: code point by code point, a proper prefix is smaller
RECURSIVE StrLess(_, _)
StrLess(a, b) ==
    IF b = <<>> THEN FALSE
    ELSE IF a = <<>> THEN TRUE
    ELSE IF Head(a) # Head(b) THEN Head(a) < Head(b)
    ELSE StrLess(Tail(a), Tail(b))

\* sorted(...) of a set of names
RECURSIVE Sorted(_)
Sorted(S) ==
    IF S = {} THEN <<>>
    ELSE LET least == CHOOSE x \in S : \A y \in S \ {x} : StrLess(x, y)
         IN  <<least>> \o Sorted(S \ {least})

\* entry / "manifest.json"
ManifestPath(name) == [dir |-> name, file |-> "manifest.json"]

NoPath == [dir |-> <<>>, file |-> ""]

\* ------------------------------------------------------------------------
\* load_manifest
\* ------------------------------------------------------------------------
\* outcome of a call: kind "issue" (a ManifestIssue), "doc" (the parsed
\* document) or "raise" (an exception other than JSONDecodeError)
LoadManifest(path, e) ==
    IF e.st = "missing"
    THEN [kind |-> "issue", issue |-> ManifestIssue(path, <<"missing manifest.json">>),
          doc |-> NoDoc]
    ELSE IF e.st = "unreadable"
    THEN [kind |-> "raise", issue |-> ManifestIssue(path, <<>>), doc |-> NoDoc]
    ELSE IF e.st = "invalid"
    THEN [kind |-> "issue",
          issue |-> ManifestIssue(path, <<"invalid JSON: ", "Expecting value">>),
          doc |-> NoDoc]
    ELSE [kind |-> "doc", issue |-> ManifestIssue(path, <<>>), doc |-> e.doc]

\* ------------------------------------------------------------------------
\* State
\* ------------------------------------------------------------------------
VARIABLES
    rootKind,    \* THEMES_DIR on disk: "absent", "file" or "dir"
    fs,          \* the entries of THEMES_DIR, by name
    pc,          \* position of main
    entries,     \* the locator's sorted listing, the part not yet visited
    cur,         \* manifest_path of the current iteration
    loaded,      \* manifest_or_issue when it is a document
    all_issues,  \* main's all_issues
    stdout,      \* lines printed to standard output
    stderr,      \* lines printed to standard error
    ret,         \* main's return value, -1 while it has not returned
    exc,         \* the exception that left main, "" if none
    calls,       \* history: the calls main made, in order
    result       \* result of validate_manifest when applied on its own

vars == <<rootKind, fs, pc, entries, cur, loaded, all_issues, stdout, stderr,
          ret, exc, calls, result>>

Call(op, dir) == [op |-> op, dir |-> dir]

SuccessLine == <<"All theme manifests look good.">>
HeaderLine == <<"Theme manifest validation failed:">>
ErrorLine == <<"error: themes directory not found: ", "THEMES_DIR">>

\* the lines main prints for a non-empty all_issues
RECURSIVE IssueLines(_)
IssueLines(issues) ==
    IF issues = <<>> THEN <<>>
    ELSE <<(<<"  - ">> \o Format(Head(issues)))>> \o IssueLines(Tail(issues))

Init ==
    /\ rootKind \in {"absent", "file", "dir"}
    /\ \E S \in {T \in SUBSET Names : Cardinality(T) <= MaxEntries} :
         \E g \in [S -> Entries] :
           /\ rootKind # "dir" => S = {}
           /\ fs = [n \in Names |-> IF n \in S THEN g[n] ELSE NoEntry]
    /\ pc = "start"
    /\ entries = <<>>
    /\ cur = NoPath
    /\ loaded = NoDoc
    /\ all_issues = <<>>
    /\ stdout = <<>>
    /\ stderr = <<>>
    /\ ret = -1
    /\ exc = ""
    /\ calls = <<>>
    /\ result = Returned(<<>>)

\* main, lines 85-89: THEMES_DIR.exists() is true of a file as of a directory
RootCheck ==
    /\ pc = "start"
    /\ IF rootKind = "absent"
       THEN /\ stderr' = Append(stderr, ErrorLine)
            /\ ret' = 2
            /\ pc' = "exit"
       ELSE /\ pc' = "locate"
            /\ UNCHANGED <<stderr, ret>>
    /\ all_issues' = <<>>
    /\ UNCHANGED <<rootKind, fs, entries, cur, loaded, stdout, exc, calls, result>>

\* iter_manifest_paths, line 39: the listing is taken and sorted at the
\* first step of the loop; iterdir() of a file raises NotADirectoryError
LocatorStart ==
    /\ pc = "locate"
    /\ calls' = Append(calls, Call("Locator", <<>>))
    /\ IF rootKind = "dir"
       THEN /\ entries' = Sorted({n \in Names : fs[n].kind # "none"})
            /\ pc' = "iter"
            /\ exc' = exc
       ELSE /\ pc' = "raised"
            /\ exc' = "NotADirectoryError"
            /\ entries' = entries
    /\ UNCHANGED <<rootKind, fs, cur, loaded, all_issues, stdout, stderr, ret, result>>

\* variant: hidden entries are not skipped
LocatorNextKeepsHidden ==
    /\ pc = "iter"
    /\ entries # <<>>
    /\ LET entry == Head(entries)
       IN  IF fs[entry].kind # "dir"
           THEN UNCHANGED <<pc, cur>>
           ELSE /\ cur' = ManifestPath(entry)
                /\ pc' = "load"
    /\ entries' = Tail(entries)
    /\ UNCHANGED <<rootKind, fs, loaded, all_issues, stdout, stderr, ret, exc,
                   calls, result>>

\* iter_manifest_paths, lines 39-45: one entry of the listing
LocatorNext ==
    /\ pc = "iter"
    /\ entries # <<>>
    /\ LET entry == Head(entries)
       IN  IF entry[1] = Dot \/ fs[entry].kind # "dir"
           THEN UNCHANGED <<pc, cur>>
           ELSE /\ cur' = ManifestPath(entry)
                /\ pc' = "load"
    /\ entries' = Tail(entries)
    /\ UNCHANGED <<rootKind, fs, loaded, all_issues, stdout, stderr, ret, exc,
                   calls, result>>

\* main, line 91: the locator is exhausted
LocatorDone ==
    /\ pc = "iter"
    /\ entries = <<>>
    /\ pc' = "report"
    /\ UNCHANGED <<rootKind, fs, entries, cur, loaded, all_issues, stdout, stderr,
                   ret, exc, calls, result>>

\* main, lines 92-95
LoadStep ==
    /\ pc = "load"
    /\ calls' = Append(calls, Call("Loader", cur.dir))
    /\ LET manifest_or_issue == LoadManifest(cur, fs[cur.dir])
       IN  CASE manifest_or_issue.kind = "issue" ->
                  /\ all_issues' = Append(all_issues, manifest_or_issue.issue)
                  /\ pc' = "iter"
                  /\ UNCHANGED <<loaded, exc>>
             [] manifest_or_issue.kind = "doc" ->
                  /\ loaded' = manifest_or_issue.doc
                  /\ pc' = "validate"
                  /\ UNCHANGED <<all_issues, exc>>
             [] OTHER ->
                  /\ pc' = "raised"
                  /\ exc' = "OSError or UnicodeDecodeError"
                  /\ UNCHANGED <<all_issues, loaded>>
    /\ UNCHANGED <<rootKind, fs, entries, cur, stdout, stderr, ret, result>>

\* main, line 96
ValidateStep ==
    /\ pc = "validate"
    /\ calls' = Append(calls, Call("Validator", cur.dir))
    /\ LET r == ValidateManifest(cur, loaded)
       IN  IF r.exc = ""
           THEN /\ all_issues' = all_issues \o r.issues
                /\ pc' = "iter"
                /\ exc' = exc
           ELSE /\ pc' = "raised"
                /\ exc' = r.exc
                /\ all_issues' = all_issues
    /\ UNCHANGED <<rootKind, fs, entries, cur, loaded, stdout, stderr, ret, result>>

\* variant: a single issue is not reported
ReportIgnoresSingleIssue ==
    /\ pc = "report"
    /\ IF Len(all_issues) > 1
       THEN /\ stdout' = stdout \o <<HeaderLine>> \o IssueLines(all_issues)
            /\ ret' = 1
       ELSE /\ stdout' = Append(stdout, SuccessLine)
            /\ ret' = 0
    /\ pc' = "exit"
    /\ UNCHANGED <<rootKind, fs, entries, cur, loaded, all_issues, stderr, exc,
                   calls, result>>

\* main, lines 98-105
Report ==
    /\ pc = "report"
    /\ IF all_issues # <<>>
       THEN /\ stdout' = stdout \o <<HeaderLine>> \o IssueLines(all_issues)
            /\ ret' = 1
       ELSE /\ stdout' = Append(stdout, SuccessLine)
            /\ ret' = 0
    /\ pc' = "exit"
    /\ UNCHANGED <<rootKind, fs, entries, cur, loaded, all_issues, stderr, exc,
                   calls, result>>

Next ==
    \/ RootCheck
    \/ LocatorStart
    \/ LocatorNext
    \/ LocatorDone
    \/ LoadStep
    \/ ValidateStep
    \/ Report

Spec == Init /\ [][Next]_vars

\* ------------------------------------------------------------------------
\* validate_manifest applied on its own to every document of Docs
\* ------------------------------------------------------------------------
SomeName == [i \in 1..1 |-> 97]

InitValidate ==
    /\ rootKind = "dir"
    /\ fs = [n \in Names |-> NoEntry]
    /\ pc = "call"
    /\ entries = <<>>
    /\ cur = ManifestPath(SomeName)
    /\ loaded \in Docs
    /\ all_issues = <<>>
    /\ stdout = <<>>
    /\ stderr = <<>>
    /\ ret = -1
    /\ exc = ""
    /\ calls = <<>>
    /\ result = Returned(<<>>)

ApplyValidate ==
    /\ pc = "call"
    /\ result' = ValidateManifest(cur, loaded)
    /\ pc' = "returned"
    /\ UNCHANGED <<rootKind, fs, entries, cur, loaded, all_issues, stdout, stderr,
                   ret, exc, calls>>

NextValidate == ApplyValidate

SpecValidate == InitValidate /\ [][NextValidate]_vars

\* ========================================================================
\* Properties
\* ========================================================================
\* kinds of issue, told apart by their message
IsVersionIssue(i) ==
    Len(i.message) >= 1 /\ i.message[1] = "expected manifest_version 3, found "
IsFieldIssue(i) ==
    Len(i.message) = 3 /\ i.message[1] = "missing required field '" /\ i.message[3] = "'"
IsFieldIssueOf(i, field) == IsFieldIssue(i) /\ i.message[2] = field
IsNotObjectIssue(i) == i.message = <<"theme section must be an object">>
IsColorsImagesIssue(i) ==
    i.message = <<"theme block should include at least 'colors' or 'images'">>
IsShapeIssue(i) == IsNotObjectIssue(i) \/ IsColorsImagesIssue(i)

\* positions of a sequence whose element satisfies P
Where(seq, P(_)) == {k \in 1..Len(seq) : P(seq[k])}

\* validate_manifest has returned for a manifest object
ValidatedObject == pc = "returned" /\ loaded.t = "object" /\ result.exc = ""

Member(key) == loaded.f[key]
Present(key) == Member(key).t # "absent"
ThemeUsable ==
    Member("theme").t = "object"
        /\ Member("theme").keys \cap {"colors", "images"} # {}

\* C1: no exception reaches the top level when every manifest under the
\* root is missing, is not JSON, or parses as JSON (whatever its top-level
\* shape): main does not end by an exception, and returns 0 or 1.
C1_NoExceptionForAnyJson ==
    (rootKind = "dir" /\ \A n \in Names : fs[n].st # "unreadable")
        => /\ pc # "raised"
           /\ pc = "exit" => ret \in {0, 1}

\* C2: 'theme section must be an object' is emitted only when theme is
\* present and not an object; a manifest that is conformant but for a
\* missing theme key yields exactly one issue.
C2_NotObjectOnlyWhenPresent ==
    ValidatedObject =>
        /\ (Where(result.issues, IsNotObjectIssue) # {})
               => (Present("theme") /\ Member("theme").t # "object")
        /\ (/\ Member("manifest_version") = JInt(3)
            /\ Present("name") /\ Present("version") /\ ~Present("theme"))
               => Len(result.issues) = 1

\* the text Python prints for the value found under manifest_version
FoundText ==
    LET v == Member("manifest_version")
    IN  CASE v.t \in {"absent", "null"} -> <<"None">>
          [] v = JBool(TRUE) -> <<"True">>
          [] v = JInt(2) -> <<"2">>
          [] v = JFloat(30) -> <<"3", ".", "0">>
          [] v = JFloat(25) -> <<"2", ".", "5">>
          [] v = JStr("3") -> <<"'", "3", "'">>
          [] OTHER -> <<"3">>

\* C3: exactly one version issue, embedding the value found, whenever
\* manifest_version is absent or is not the integer 3 (3.0 included), and
\* no version issue exactly when it is the integer 3.
C3_VersionIssueUnlessInteger3 ==
    ValidatedObject =>
        LET vi == Where(result.issues, IsVersionIssue)
        IN  IF Member("manifest_version") = JInt(3)
            THEN vi = {}
            ELSE /\ Cardinality(vi) = 1
                 /\ \A k \in vi :
                      result.issues[k].message
                          = <<"expected manifest_version 3, found ">> \o FoundText

\* C4: with the themes root present, main returns 0 and prints only the
\* success line iff all_issues is empty; otherwise it returns 1 and prints
\* the header and then one line per issue, in the order of all_issues.
C4_ReportFollowsIssueList ==
    (pc = "exit" /\ rootKind # "absent") =>
        /\ stderr = <<>>
        /\ ret \in {0, 1}
        /\ ret = 0 <=> all_issues = <<>>
        /\ ret = 0 => stdout = <<SuccessLine>>
        /\ ret = 1 =>
             /\ Len(stdout) = Len(all_issues) + 1
             /\ stdout[1] = HeaderLine
             /\ \A k \in 1..Len(all_issues) :
                  stdout[k + 1] = <<"  - ", all_issues[k].path, ": ">>
                                      \o all_issues[k].message

C4_Witness ==
    pc = "exit" /\ rootKind = "dir" /\ ret = 1 /\ Len(all_issues) >= 2 /\ Len(stdout) >= 3

\* C5: when the root is not an existing directory main prints one error
\* line on standard error, nothing on standard output, calls neither the
\* locator nor the loader nor the validator, and returns 2; and 2 is
\* returned in no other case.
C5_NoScanWithoutRootDirectory ==
    /\ ret = 2 => rootKind # "dir"
    /\ rootKind # "dir" =>
         /\ calls = <<>>
         /\ stdout = <<>>
         /\ pc # "raised"
         /\ pc = "exit" => (ret = 2 /\ stderr = <<ErrorLine>>)

\* the theme directories: non-hidden immediate child directories
ThemeDirs == {n \in Names : fs[n].kind = "dir" /\ n[1] # Dot}

\* lexicographic order of names by code point
LexBefore(a, b) ==
    \E k \in 1..Len(b) :
        /\ k <= Len(a) + 1
        /\ \A j \in 1..(k - 1) : a[j] = b[j]
        /\ k <= Len(a) => a[k] < b[k]

\* what one directory contributes: its issues and the calls made for it
DirIssues(n) ==
    LET r == LoadManifest(ManifestPath(n), fs[n])
    IN  IF r.kind = "issue" THEN <<r.issue>>
        ELSE ValidateManifest(ManifestPath(n), r.doc).issues
DirCalls(n) ==
    <<Call("Loader", n)>>
        \o (IF fs[n].st = "json" THEN <<Call("Validator", n)>> ELSE <<>>)

RECURSIVE Flatten(_)
Flatten(ss) == IF ss = <<>> THEN <<>> ELSE Head(ss) \o Flatten(Tail(ss))

\* C6: at the end of the scan all_issues is the concatenation, over the
\* theme directories taken once each in lexicographic order, of the load
\* issue (loader failed, validator not called) or the validator's issues.
C6_IssuesAreConcatenationInOrder ==
    (pc \in {"report", "exit"} /\ rootKind = "dir") =>
        \E order \in [1..Cardinality(ThemeDirs) -> ThemeDirs] :
            /\ \A i, j \in DOMAIN order : i < j => LexBefore(order[i], order[j])
            /\ all_issues = Flatten([i \in DOMAIN order |-> DirIssues(order[i])])
            /\ calls = <<Call("Locator", <<>>)>>
                          \o Flatten([i \in DOMAIN order |-> DirCalls(order[i])])

C6_Witness ==
    /\ pc = "report"
    /\ \E a, b \in ThemeDirs :
         /\ LexBefore(a, b)
         /\ fs[a].st \in {"missing", "invalid"}
         /\ fs[b].st = "json"
    /\ Len(all_issues) = 3

\* C7: the required-field issues are exactly one per key among name,
\* version, theme that is absent, each naming a distinct missing field; a
\* key that is present yields none, whatever its value.
C7_OneFieldIssuePerAbsentKey ==
    ValidatedObject =>
        LET fi == Where(result.issues, IsFieldIssue)
            missing == {f \in {"name", "version", "theme"} : Member(f).t = "absent"}
        IN  /\ Cardinality(fi) = Cardinality(missing)
            /\ \A k \in fi : result.issues[k].message[2] \in missing
            /\ \A f \in missing :
                 Cardinality(Where(result.issues, LAMBDA i : IsFieldIssueOf(i, f))) = 1

C7_Witness ==
    /\ ValidatedObject
    /\ Member("name").t = "absent"
    /\ Member("version").t = "null"
    /\ Member("theme").t = "absent"
    /\ Cardinality(Where(result.issues, IsFieldIssue)) = 2

\* C8: at most one theme-shape issue per manifest: theme present and not an
\* object gives exactly one 'theme section must be an object' and nothing
\* about colors/images; an object with neither colors nor images gives
\* exactly one issue recommending them; an object with one of them, none.
C8_AtMostOneShapeIssue ==
    ValidatedObject =>
        LET no == Cardinality(Where(result.issues, IsNotObjectIssue))
            ci == Cardinality(Where(result.issues, IsColorsImagesIssue))
        IN  /\ no + ci <= 1
            /\ (Present("theme") /\ Member("theme").t # "object") => (no = 1 /\ ci = 0)
            /\ (Member("theme").t = "object" /\ ~ThemeUsable) => (no = 0 /\ ci = 1)
            /\ ThemeUsable => (no = 0 /\ ci = 0)

C8_Witness ==
    /\ ValidatedObject
    /\ Member("theme").t = "array"
    /\ Cardinality(Where(result.issues, IsNotObjectIssue)) = 1

\* C9: no issue for a fully conformant manifest (manifest_version the
\* integer 3; name, version, theme present; theme an object with colors
\* or images), and at least one issue for every other manifest object.
C9_EmptyIffConformant ==
    ValidatedObject =>
        (result.issues = <<>>
            <=> /\ Member("manifest_version") = JInt(3)
                /\ Present("name") /\ Present("version") /\ Present("theme")
                /\ ThemeUsable)

\* place of an issue in the order of the rules
Rank(i) ==
    CASE IsVersionIssue(i) -> 1
      [] IsFieldIssueOf(i, "name") -> 2
      [] IsFieldIssueOf(i, "version") -> 3
      [] IsFieldIssueOf(i, "theme") -> 4
      [] IsShapeIssue(i) -> 5
      [] OTHER -> 0

\* C10: every rule is checked whatever the earlier ones produced, and the
\* issues come in the order version, name, version field, theme field,
\* theme shape.
C10_AllRulesInOrder ==
    ValidatedObject =>
        /\ \A k \in 1..Len(result.issues) : Rank(result.issues[k]) # 0
        /\ \A j, k \in 1..Len(result.issues) :
             j < k => Rank(result.issues[j]) < Rank(result.issues[k])
        /\ \A f \in {"name", "version", "theme"} :
             ~Present(f) => \E k \in 1..Len(result.issues) :
                               IsFieldIssueOf(result.issues[k], f)
        /\ ~ThemeUsable => \E k \in 1..Len(result.issues) : IsShapeIssue(result.issues[k])

C10_Witness ==
    /\ ValidatedObject
    /\ Len(result.issues) = 5
    /\ IsVersionIssue(result.issues[1])
    /\ IsShapeIssue(result.issues[5])

====
